---- MODULE Spec2Model ----
(***************************************************************************)
(* The SQLite book store of BookBot (src/database.py, DatabaseManager):    *)
(* the tables books, book_contents and reading_progress, the operations    *)
(* that change them, and the queries that read them.                       *)
(*                                                                         *)
(* Every operation opens its own connection and commits before it          *)
(* returns, so one operation is one atomic step.  Columns that no          *)
(* operation reads are left out of the rows: the timestamps (created_at,   *)
(* added_at, last_read) and the surrogate ids of book_contents and         *)
(* reading_progress.  The id of books is read everywhere and is kept,      *)
(* with its AUTOINCREMENT counter.                                         *)
(*                                                                         *)
(* SpecConcurrentSave runs two save_reading_progress calls on the same     *)
(* database file step by step (connect, execute, commit, return), with     *)
(* SQLite's write lock between them, SpecConcurrentAdd does the same for   *)
(* two add_book_with_content calls.  SpecUser is the in-memory collection  *)
(* of class User (src/models.py).  SpecBot is the dialogue of BookBot      *)
(* (src/telegram_bot.py) over the store: one chat, one update per step.    *)
(***************************************************************************)
EXTENDS Integers, Sequences, FiniteSets, TLC

\* ------------------------------------------------------------------ bounds
MaxBookId == 2       \* AUTOINCREMENT ids handed out by books
MaxLen == 3          \* length of the non-empty content stored through the operations
MaxPageSize == 4     \* largest page_size asked for
MaxPagedLen == 8     \* longest content paged in SpecPage

Titles == {"t1", "t2"}
Authors == {"a1"}
Genres == {"g"}
Users == {11, 12}     \* the users asked about
Savers == {11}        \* the users who save progress
BookIds == 1..MaxBookId
SavedPages == {1, 2}
PageSizes == 1..MaxPageSize
PageArgs == (-1)..(MaxPagedLen + 2)     \* the pages asked for in SpecPage
StorePageArgs == {0, 1, MaxLen + 1}     \* the pages asked for in Spec

\* A text of n characters; the character at position i is i, so a slice
\* tells which positions it was cut from.
Text(n) == [i \in 1..n |-> i]
Contents == {Text(0), Text(MaxLen)}

\* Python's None.
None == [is_none |-> TRUE]
Some(v) == [is_none |-> FALSE, value |-> v]

Min(a, b) == IF a < b THEN a ELSE b
Max(a, b) == IF a > b THEN a ELSE b

VARIABLES
    books,             \* rows of table books
    books_seq,         \* sqlite_sequence of books
    book_contents,     \* rows of table book_contents
    reading_progress,  \* rows of table reading_progress
    last,              \* the last operation called, with what it returned or raised
    removed,           \* ids whose book row delete_book removed while it had content
    user,              \* User.user: user_id -> book_id -> status and rating
    conns,             \* the calls in progress on their own connections, one per caller
    db_lock,           \* the caller whose connection holds the write lock, or 0
    commit_log,        \* the callers whose transaction committed, in commit order
    bot                \* the chat's conversation state and context.user_data

vars == <<books, books_seq, book_contents, reading_progress, last, removed,
          user, conns, db_lock, commit_log, bot>>

db_vars == <<books, books_seq, book_contents, reading_progress, removed>>
conn_vars == <<conns, db_lock, commit_log>>

\* The two callers of SpecConcurrentSave and of SpecConcurrentAdd.
Procs == {1, 2}

\* The chat before /start: no conversation state, an empty context.user_data
\* (a key that is not set is "unset", None or 0).
no_conversation ==
    [state |-> "none", add_type |-> "unset", uploaded_file |-> None,
     current_book_id |-> 0, current_page |-> 0]

\* An empty dict.
EmptyDict == [k \in {} |-> k]

\* -------------------------------------------------------------- the schema
\* sqlite3.connect() leaves foreign-key enforcement off on a new connection; no
\* operation issues PRAGMA foreign_keys = ON, so the FOREIGN KEY ... ON DELETE
\* CASCADE clauses of the schema are parsed and not enforced.
foreign_keys == FALSE

\* books without its UNIQUE(title, author) constraint.
books_unique_off(title, author) == FALSE

\* UNIQUE(title, author) of books: an insert of (title, author) conflicts.
books_unique_conflict(title, author) ==
    \E r \in books : r.title = title /\ r.author = author

\* UNIQUE(book_id) of book_contents: an insert for book_id conflicts.
contents_unique_conflict(book_id) ==
    \E c \in book_contents : c.book_id = book_id

\* reading_progress without its UNIQUE(user_id, book_id) constraint.
progress_unique_off(user_id, book_id) == {}

\* reading_progress with UNIQUE(book_id) for UNIQUE(user_id, book_id).
progress_unique_book_only(user_id, book_id) ==
    {r \in reading_progress : r.book_id = book_id}

\* UNIQUE(user_id, book_id) of reading_progress: the rows an insert conflicts with.
progress_unique_conflict(user_id, book_id) ==
    {r \in reading_progress : r.user_id = user_id /\ r.book_id = book_id}

\* pages column: max(1, (content_length + 1499) // 1500)
stored_pages(content_length) == Max(1, (content_length + 1499) \div 1500)

content_row(book_id, content) ==
    [book_id |-> book_id, content |-> content,
     content_length |-> Len(content), pages |-> stored_pages(Len(content))]

\* ---------------------------------------------------------------- queries
book_exists(title, author) ==
    \E r \in books : r.title = title /\ r.author = author

get_book(book_id) ==
    IF \E b \in books : b.id = book_id
    THEN LET b == CHOOSE r \in books : r.id = book_id
             bc == {c \in book_contents : c.book_id = book_id}
             c == CHOOSE r \in bc : TRUE
         IN  [id |-> b.id, title |-> b.title, author |-> b.author, genre |-> b.genre,
              has_content |-> bc # {},
              content_length |-> IF bc # {} THEN c.content_length ELSE 0,
              pages |-> IF bc # {} THEN c.pages ELSE 0]
    ELSE None

get_book_content(book_id) ==
    IF \E c \in book_contents : c.book_id = book_id
    THEN Some((CHOOSE c \in book_contents : c.book_id = book_id).content)
    ELSE None

\* page_range without the branch that lowers a page above total_pages.
page_range_no_upper(content_length, page, page_size) ==
    LET total_pages == Max(1, (content_length + page_size - 1) \div page_size)
        p == IF page < 1 THEN 1 ELSE page
        start_idx == (p - 1) * page_size
        end_idx == Min(start_idx + page_size, content_length)
    IN  [page |-> p, total_pages |-> total_pages,
         start_idx |-> start_idx, end_idx |-> end_idx,
         percentage |-> (end_idx * 100) \div content_length]

\* page_range without the branch that raises a page below 1.
page_range_no_lower(content_length, page, page_size) ==
    LET total_pages == Max(1, (content_length + page_size - 1) \div page_size)
        p == IF page > total_pages THEN total_pages ELSE page
        start_idx == (p - 1) * page_size
        end_idx == Min(start_idx + page_size, content_length)
    IN  [page |-> p, total_pages |-> total_pages,
         start_idx |-> start_idx, end_idx |-> end_idx,
         percentage |-> (end_idx * 100) \div content_length]

\* page_range with total_pages rounded down: content_length // page_size.
page_range_floor_pages(content_length, page, page_size) ==
    LET total_pages == Max(1, content_length \div page_size)
        p == IF page < 1 THEN 1
             ELSE IF page > total_pages THEN total_pages ELSE page
        start_idx == (p - 1) * page_size
        end_idx == Min(start_idx + page_size, content_length)
    IN  [page |-> p, total_pages |-> total_pages,
         start_idx |-> start_idx, end_idx |-> end_idx,
         percentage |-> (end_idx * 100) \div content_length]

\* page_range with a 1-based start: start_idx = (page - 1) * page_size + 1.
page_range_one_based(content_length, page, page_size) ==
    LET total_pages == Max(1, (content_length + page_size - 1) \div page_size)
        p == IF page < 1 THEN 1
             ELSE IF page > total_pages THEN total_pages ELSE page
        start_idx == (p - 1) * page_size + 1
        end_idx == Min(start_idx + page_size, content_length)
    IN  [page |-> p, total_pages |-> total_pages,
         start_idx |-> start_idx, end_idx |-> end_idx,
         percentage |-> (end_idx * 100) \div content_length]

\* The page arithmetic of get_book_page for a content of content_length > 0
\* characters.  percentage is int((end_idx / content_length) * 100): the float
\* product truncates to the exact floor for every content_length below 50.
page_range(content_length, page, page_size) ==
    LET total_pages == Max(1, (content_length + page_size - 1) \div page_size)
        p == IF page < 1 THEN 1
             ELSE IF page > total_pages THEN total_pages ELSE page
        start_idx == (p - 1) * page_size
        end_idx == Min(start_idx + page_size, content_length)
    IN  [page |-> p, total_pages |-> total_pages,
         start_idx |-> start_idx, end_idx |-> end_idx,
         percentage |-> (end_idx * 100) \div content_length]

\* content[start_idx:end_idx], as Python slices a str: a negative index counts
\* from the end, and both indices are cut to the length.
Slice(content, start_idx, end_idx) ==
    LET n == Len(content)
        norm(i) == IF i < 0 THEN Max(i + n, 0) ELSE Min(i, n)
    IN  IF norm(start_idx) < norm(end_idx)
        THEN SubSeq(content, norm(start_idx) + 1, norm(end_idx))
        ELSE <<>>

\* get_book_page with "if content is None" for "if not content": an empty
\* text is paged as one empty page.
get_book_page_empty_ok(book_id, page, page_size) ==
    LET content == get_book_content(book_id)
        book_info == get_book(book_id)
    IN  IF content = None THEN None
        ELSE IF book_info = None THEN None
        ELSE IF content.value = <<>>
        THEN [book_id |-> book_id, title |-> book_info.title,
              author |-> book_info.author, page |-> 1, total_pages |-> 1,
              content |-> <<>>, start_char |-> 1, end_char |-> 0,
              total_chars |-> 0, percentage |-> 0]
        ELSE LET r == page_range(Len(content.value), page, page_size)
             IN  [book_id |-> book_id, title |-> book_info.title,
                  author |-> book_info.author,
                  page |-> r.page, total_pages |-> r.total_pages,
                  content |-> Slice(content.value, r.start_idx, r.end_idx),
                  start_char |-> r.start_idx + 1, end_char |-> r.end_idx,
                  total_chars |-> Len(content.value),
                  percentage |-> r.percentage]

\* get_book_page without the get_book lookup: the page is cut from whatever
\* content row the id has.
get_book_page_no_book_check(book_id, page, page_size) ==
    LET content == get_book_content(book_id)
    IN  IF content = None \/ content.value = <<>> THEN None
        ELSE LET r == page_range(Len(content.value), page, page_size)
             IN  [book_id |-> book_id,
                  page |-> r.page, total_pages |-> r.total_pages,
                  content |-> Slice(content.value, r.start_idx, r.end_idx),
                  start_char |-> r.start_idx + 1, end_char |-> r.end_idx,
                  total_chars |-> Len(content.value),
                  percentage |-> r.percentage]

get_book_page(book_id, page, page_size) ==
    LET content == get_book_content(book_id)
        book_info == get_book(book_id)
    IN  IF content = None \/ content.value = <<>> THEN None
        ELSE IF book_info = None THEN None
        ELSE LET r == page_range(Len(content.value), page, page_size)
             IN  [book_id |-> book_id, title |-> book_info.title,
                  author |-> book_info.author,
                  page |-> r.page, total_pages |-> r.total_pages,
                  content |-> Slice(content.value, r.start_idx, r.end_idx),
                  start_char |-> r.start_idx + 1, end_char |-> r.end_idx,
                  total_chars |-> Len(content.value),
                  percentage |-> r.percentage]

\* get_reading_progress answering the default page 1 when no row is stored.
get_reading_progress_default_one(user_id, book_id) ==
    IF \E r \in reading_progress : r.user_id = user_id /\ r.book_id = book_id
    THEN (CHOOSE r \in reading_progress :
              r.user_id = user_id /\ r.book_id = book_id).current_page
    ELSE 1

get_reading_progress(user_id, book_id) ==
    IF \E r \in reading_progress : r.user_id = user_id /\ r.book_id = book_id
    THEN (CHOOSE r \in reading_progress :
              r.user_id = user_id /\ r.book_id = book_id).current_page
    ELSE 0

\* The counts of get_statistics: total_books is COUNT(*) of books,
\* books_with_content is COUNT(*) of book_contents.
get_statistics ==
    LET total_books == Cardinality(books)
        books_with_content == Cardinality(book_contents)
    IN  [total_books |-> total_books,
         books_with_content |-> books_with_content,
         books_without_content |-> total_books - books_with_content,
         unique_authors |-> Cardinality({b.author : b \in books})]

Init ==
    /\ books = {}
    /\ books_seq = 0
    /\ book_contents = {}
    /\ reading_progress = {}
    /\ last = [op |-> "init_database"]
    /\ removed = {}
    /\ user = EmptyDict
    /\ conns = [p \in Procs |-> [pc |-> "idle"]]
    /\ db_lock = 0
    /\ commit_log = <<>>
    /\ bot = no_conversation

\* --------------------------------------------------------------- operations
add_book(title, author, genre) ==
    /\ IF books_unique_conflict(title, author)
       THEN /\ last' = [op |-> "add_book", title |-> title, author |-> author,
                        raised |-> "Exception"]
            /\ UNCHANGED <<books, books_seq>>
       ELSE /\ books_seq < MaxBookId
            /\ books' = books \cup {[id |-> books_seq + 1, title |-> title,
                                     author |-> author, genre |-> genre]}
            /\ books_seq' = books_seq + 1
            /\ last' = [op |-> "add_book", title |-> title, author |-> author,
                        raised |-> "none", ret |-> books_seq + 1]
    /\ UNCHANGED <<book_contents, reading_progress, removed>>
    /\ UNCHANGED <<user, conns, db_lock, commit_log, bot>>

\* delete_book returning True whatever rowcount says.
delete_book_always_true(book_id) ==
    LET deleted == \E b \in books : b.id = book_id
    IN  /\ books' = {b \in books : b.id # book_id}
        /\ removed' = IF deleted /\ (\E c \in book_contents : c.book_id = book_id)
                      THEN removed \cup {book_id} ELSE removed
        /\ last' = [op |-> "delete_book", book_id |-> book_id,
                    raised |-> "none", ret |-> TRUE]
        /\ UNCHANGED <<books_seq, book_contents, reading_progress>>
        /\ UNCHANGED <<user, conns, db_lock, commit_log, bot>>

delete_book(book_id) ==
    LET deleted == \E b \in books : b.id = book_id
    IN  /\ books' = {b \in books : b.id # book_id}
        /\ book_contents' = IF foreign_keys
                            THEN {c \in book_contents : c.book_id # book_id}
                            ELSE book_contents
        /\ reading_progress' = IF foreign_keys
                               THEN {r \in reading_progress : r.book_id # book_id}
                               ELSE reading_progress
        /\ removed' = IF deleted /\ (\E c \in book_contents : c.book_id = book_id)
                      THEN removed \cup {book_id} ELSE removed
        /\ last' = [op |-> "delete_book", book_id |-> book_id,
                    raised |-> "none", ret |-> deleted]
        /\ UNCHANGED books_seq
        /\ UNCHANGED <<user, conns, db_lock, commit_log, bot>>

\* add_book_with_content committing after the INSERT into books, before the
\* INSERT into book_contents is made.
add_book_with_content_book_only(title, author, genre, content) ==
    LET book_id == books_seq + 1
    IN  /\ IF book_exists(title, author) \/ books_unique_conflict(title, author)
           THEN /\ last' = [op |-> "add_book_with_content", title |-> title,
                            author |-> author, raised |-> "Exception"]
                /\ UNCHANGED <<books, books_seq>>
           ELSE /\ books_seq < MaxBookId
                /\ books' = books \cup {[id |-> book_id, title |-> title,
                                         author |-> author, genre |-> genre]}
                /\ books_seq' = book_id
                /\ last' = [op |-> "add_book_with_content", title |-> title,
                            author |-> author, content |-> content,
                            raised |-> "none", ret |-> book_id]
        /\ UNCHANGED <<book_contents, reading_progress, removed>>
        /\ UNCHANGED <<user, conns, db_lock, commit_log, bot>>

add_book_with_content(title, author, genre, content) ==
    LET book_id == books_seq + 1
        failed == \/ book_exists(title, author)
                  \/ books_unique_conflict(title, author)
                  \/ contents_unique_conflict(book_id)
    IN  /\ IF failed
           THEN /\ last' = [op |-> "add_book_with_content", title |-> title,
                            author |-> author, raised |-> "Exception"]
                /\ UNCHANGED <<books, books_seq, book_contents>>
           ELSE /\ books_seq < MaxBookId
                /\ books' = books \cup {[id |-> book_id, title |-> title,
                                         author |-> author, genre |-> genre]}
                /\ books_seq' = book_id
                /\ book_contents' = book_contents \cup {content_row(book_id, content)}
                /\ last' = [op |-> "add_book_with_content", title |-> title,
                            author |-> author, content |-> content,
                            raised |-> "none", ret |-> book_id]
        /\ UNCHANGED <<reading_progress, removed>>
        /\ UNCHANGED <<user, conns, db_lock, commit_log, bot>>

add_content_to_existing_book(book_id, content) ==
    /\ IF ~ \E b \in books : b.id = book_id
       THEN /\ last' = [op |-> "add_content_to_existing_book", book_id |-> book_id,
                        raised |-> "none", ret |-> FALSE]
            /\ UNCHANGED book_contents
       ELSE /\ book_contents' =
                  IF \E c \in book_contents : c.book_id = book_id
                  THEN {IF c.book_id = book_id
                        THEN content_row(book_id, content) ELSE c
                        : c \in book_contents}
                  ELSE book_contents \cup {content_row(book_id, content)}
            /\ last' = [op |-> "add_content_to_existing_book", book_id |-> book_id,
                        content |-> content, raised |-> "none", ret |-> TRUE]
    /\ UNCHANGED <<books, books_seq, reading_progress, removed>>
    /\ UNCHANGED <<user, conns, db_lock, commit_log, bot>>

\* INSERT without the UNIQUE(user_id, book_id) conflict handling.
insert_plain_progress(user_id, book_id, current_page) ==
    reading_progress
        \cup {[user_id |-> user_id, book_id |-> book_id,
               current_page |-> current_page]}

\* INSERT OR IGNORE: a conflicting row is kept as it is.
insert_or_ignore_progress(user_id, book_id, current_page) ==
    IF progress_unique_conflict(user_id, book_id) # {}
    THEN reading_progress
    ELSE reading_progress
             \cup {[user_id |-> user_id, book_id |-> book_id,
                    current_page |-> current_page]}

\* INSERT OR REPLACE: the rows the new one conflicts with are deleted, then it
\* is inserted.
insert_or_replace_progress(user_id, book_id, current_page) ==
    (reading_progress \ progress_unique_conflict(user_id, book_id))
        \cup {[user_id |-> user_id, book_id |-> book_id,
               current_page |-> current_page]}

save_reading_progress(user_id, book_id, current_page) ==
    /\ IF foreign_keys /\ ~ \E b \in books : b.id = book_id
       THEN /\ last' = [op |-> "save_reading_progress", user_id |-> user_id,
                        book_id |-> book_id, current_page |-> current_page,
                        previous |-> get_reading_progress(user_id, book_id),
                        raised |-> "none", ret |-> FALSE]
            /\ UNCHANGED reading_progress
       ELSE /\ reading_progress' =
                   insert_or_replace_progress(user_id, book_id, current_page)
            /\ last' = [op |-> "save_reading_progress", user_id |-> user_id,
                        book_id |-> book_id, current_page |-> current_page,
                        previous |-> get_reading_progress(user_id, book_id),
                        raised |-> "none", ret |-> TRUE]
    /\ UNCHANGED <<books, books_seq, book_contents, removed>>
    /\ UNCHANGED <<user, conns, db_lock, commit_log, bot>>

clear_database ==
    /\ reading_progress' = {}
    /\ book_contents' = {}
    /\ books' = {}
    /\ last' = [op |-> "clear_database", raised |-> "none", ret |-> TRUE]
    /\ UNCHANGED <<books_seq, removed>>
    /\ UNCHANGED <<user, conns, db_lock, commit_log, bot>>

Next ==
    \/ \E t \in Titles, a \in Authors, g \in Genres : add_book(t, a, g)
    \/ \E t \in Titles, a \in Authors, g \in Genres, c \in Contents :
           add_book_with_content(t, a, g, c)
    \/ \E b \in BookIds, c \in Contents : add_content_to_existing_book(b, c)
    \/ \E b \in BookIds : delete_book(b)
    \/ \E u \in Savers, b \in BookIds, p \in SavedPages : save_reading_progress(u, b, p)
    \/ clear_database

Spec == Init /\ [][Next]_vars

\* ------------------------------------------------------------ paging alone
\* The store after one add_book_with_content, for each content length; the
\* only operation is the query get_book_page, for each id, page and page_size.
InitPage ==
    /\ books = {[id |-> 1, title |-> "t1", author |-> "a1", genre |-> "g"]}
    /\ books_seq = 1
    /\ \E n \in 0..MaxPagedLen : book_contents = {content_row(1, Text(n))}
    /\ reading_progress = {}
    /\ last = [op |-> "init_database"]
    /\ removed = {}
    /\ user = EmptyDict
    /\ conns = [p \in Procs |-> [pc |-> "idle"]]
    /\ db_lock = 0
    /\ commit_log = <<>>
    /\ bot = no_conversation

call_get_book_page(book_id, page, page_size) ==
    /\ last' = [op |-> "get_book_page", book_id |-> book_id, page |-> page,
                page_size |-> page_size,
                ret |-> get_book_page(book_id, page, page_size)]
    /\ UNCHANGED <<books, books_seq, book_contents, reading_progress, removed>>
    /\ UNCHANGED <<user, conns, db_lock, commit_log, bot>>

NextPage ==
    \E b \in BookIds, p \in PageArgs, s \in PageSizes : call_get_book_page(b, p, s)

SpecPage == InitPage /\ [][NextPage]_vars

\* ------------------------------------------------- saves of several users
\* A store with one book and its content, and save_reading_progress called
\* by each user for each book id and page.
InitProgress ==
    /\ books = {[id |-> 1, title |-> "t1", author |-> "a1", genre |-> "g"]}
    /\ books_seq = 1
    /\ book_contents = {content_row(1, Text(MaxLen))}
    /\ reading_progress = {}
    /\ last = [op |-> "init_database"]
    /\ removed = {}
    /\ user = EmptyDict
    /\ conns = [p \in Procs |-> [pc |-> "idle"]]
    /\ db_lock = 0
    /\ commit_log = <<>>
    /\ bot = no_conversation

NextProgress ==
    \E u \in Users, b \in BookIds, p \in SavedPages : save_reading_progress(u, b, p)

SpecProgress == InitProgress /\ [][NextProgress]_vars

\* ------------------------------------------- two concurrent saves of one key
\* Two callers run save_reading_progress(user_id, book_id, p) for the same
\* (user_id, book_id), each on its own connection to the same file.  The
\* INSERT OR REPLACE opens the connection's transaction and takes the file's
\* write lock; its row is written to the file by commit, which releases the
\* lock.  A connection that finds the lock taken waits (takes no step) or, when
\* the busy timeout of sqlite3.connect runs out, gets OperationalError.
SaveKeyUser == 11
SaveKeyBook == 1

InitConcurrentSave ==
    /\ books = {[id |-> SaveKeyBook, title |-> "t1", author |-> "a1", genre |-> "g"]}
    /\ books_seq = SaveKeyBook
    /\ book_contents = {}
    /\ \/ reading_progress = {}
       \/ \E p \in SavedPages :
              reading_progress = {[user_id |-> SaveKeyUser, book_id |-> SaveKeyBook,
                                   current_page |-> p]}
    /\ last = [op |-> "init_database"]
    /\ removed = {}
    /\ user = EmptyDict
    /\ conns \in [Procs -> {[pc |-> "called", user_id |-> SaveKeyUser,
                             book_id |-> SaveKeyBook, current_page |-> p]
                            : p \in SavedPages}]
    /\ db_lock = 0
    /\ commit_log = <<>>
    /\ bot = no_conversation

\* conn = sqlite3.connect(self.db_name); cursor = conn.cursor()
save_connect(proc) ==
    /\ conns[proc].pc = "called"
    /\ conns' = [conns EXCEPT ![proc].pc = "connected"]
    /\ UNCHANGED <<db_vars, last, user, bot, db_lock, commit_log>>

\* cursor.execute(INSERT OR REPLACE ...) with the write lock free: the
\* transaction begins, takes the lock and holds the statement's result.
save_execute(proc) ==
    /\ conns[proc].pc = "connected"
    /\ db_lock = 0
    /\ db_lock' = proc
    /\ conns' = [conns EXCEPT ![proc] =
                    [pc |-> "executed", user_id |-> @.user_id, book_id |-> @.book_id,
                     current_page |-> @.current_page,
                     rows |-> insert_or_replace_progress(@.user_id, @.book_id,
                                                         @.current_page)]]
    /\ UNCHANGED <<db_vars, last, user, bot, commit_log>>

\* cursor.execute(...) with the write lock held by the other connection until
\* the busy timeout ran out: OperationalError, conn.rollback(), return False.
save_execute_locked(proc) ==
    /\ conns[proc].pc = "connected"
    /\ db_lock \notin {0, proc}
    /\ conns' = [conns EXCEPT ![proc] =
                    [pc |-> "returned", user_id |-> @.user_id, book_id |-> @.book_id,
                     current_page |-> @.current_page, ret |-> FALSE]]
    /\ last' = [op |-> "save_reading_progress", user_id |-> conns[proc].user_id,
                book_id |-> conns[proc].book_id,
                current_page |-> conns[proc].current_page,
                raised |-> "none", ret |-> FALSE]
    /\ UNCHANGED <<db_vars, user, bot, db_lock, commit_log>>

\* conn.commit(): the transaction's rows become the table, the lock is released.
save_commit(proc) ==
    /\ conns[proc].pc = "executed"
    /\ db_lock = proc
    /\ reading_progress' = conns[proc].rows
    /\ db_lock' = 0
    /\ commit_log' = Append(commit_log, proc)
    /\ conns' = [conns EXCEPT ![proc] =
                    [pc |-> "committed", user_id |-> @.user_id, book_id |-> @.book_id,
                     current_page |-> @.current_page]]
    /\ UNCHANGED <<books, books_seq, book_contents, removed, last, user, bot>>

\* return True; finally: conn.close()
save_return(proc) ==
    /\ conns[proc].pc = "committed"
    /\ conns' = [conns EXCEPT ![proc] =
                    [pc |-> "returned", user_id |-> @.user_id, book_id |-> @.book_id,
                     current_page |-> @.current_page, ret |-> TRUE]]
    /\ last' = [op |-> "save_reading_progress", user_id |-> conns[proc].user_id,
                book_id |-> conns[proc].book_id,
                current_page |-> conns[proc].current_page,
                raised |-> "none", ret |-> TRUE]
    /\ UNCHANGED <<db_vars, user, bot, db_lock, commit_log>>

NextConcurrentSave ==
    \/ \E proc \in Procs : save_connect(proc)
    \/ \E proc \in Procs : save_execute(proc)
    \/ \E proc \in Procs : save_execute_locked(proc)
    \/ \E proc \in Procs : save_commit(proc)
    \/ \E proc \in Procs : save_return(proc)

SpecConcurrentSave == InitConcurrentSave /\ [][NextConcurrentSave]_vars

\* ------------------------------- two concurrent add_book_with_content calls
\* Two callers run add_book_with_content for the same (title, author), each on
\* its own connection.  book_exists reads the committed table on a connection
\* of its own; the INSERT into books opens the caller's transaction and takes
\* the write lock; UNIQUE(title, author) is checked by that INSERT against the
\* committed rows; commit writes the caller's rows and releases the lock.
AddKeyTitle == "t1"
AddKeyAuthor == "a1"

InitConcurrentAdd ==
    /\ \/ /\ books = {}
          /\ books_seq = 0
          /\ book_contents = {}
       \/ \E t \in Titles :
             /\ books = {[id |-> 1, title |-> t, author |-> AddKeyAuthor, genre |-> "g"]}
             /\ books_seq = 1
             /\ book_contents = {content_row(1, Text(MaxLen))}
    /\ reading_progress = {}
    /\ last = [op |-> "init_database"]
    /\ removed = {}
    /\ user = EmptyDict
    /\ conns \in [Procs -> {[pc |-> "called", title |-> AddKeyTitle,
                             author |-> AddKeyAuthor, genre |-> "g", content |-> c]
                            : c \in Contents}]
    /\ db_lock = 0
    /\ commit_log = <<>>
    /\ bot = no_conversation

\* The call of proc ends by raising exc: conn.rollback(); raise e; conn.close()
add_raised(proc, exc) ==
    [pc |-> "returned", title |-> conns[proc].title, author |-> conns[proc].author,
     genre |-> conns[proc].genre, content |-> conns[proc].content, raised |-> exc]

\* conn = sqlite3.connect(self.db_name); cursor = conn.cursor()
add_book_with_content_connect(proc) ==
    /\ conns[proc].pc = "called"
    /\ conns' = [conns EXCEPT ![proc].pc = "connected"]
    /\ UNCHANGED <<db_vars, last, user, bot, db_lock, commit_log>>

\* if self.book_exists(title, author): raise Exception(...)
add_book_with_content_check(proc) ==
    /\ conns[proc].pc = "connected"
    /\ conns' = [conns EXCEPT ![proc] =
                    IF book_exists(@.title, @.author)
                    THEN add_raised(proc, "Exception")
                    ELSE [@ EXCEPT !.pc = "checked"]]
    /\ UNCHANGED <<db_vars, last, user, bot, db_lock, commit_log>>

\* cursor.execute(INSERT INTO books ...) with the write lock free: the lock is
\* taken; a UNIQUE(title, author) conflict raises IntegrityError, and the
\* rollback releases the lock; otherwise the transaction holds the new row.
add_book_with_content_insert_book(proc) ==
    /\ conns[proc].pc = "checked"
    /\ db_lock = 0
    /\ IF books_unique_conflict(conns[proc].title, conns[proc].author)
       THEN /\ conns' = [conns EXCEPT ![proc] = add_raised(proc, "IntegrityError")]
            /\ UNCHANGED db_lock
       ELSE /\ conns' = [conns EXCEPT ![proc] =
                            [pc |-> "book_inserted", title |-> @.title,
                             author |-> @.author, genre |-> @.genre,
                             content |-> @.content, book_id |-> books_seq + 1]]
            /\ db_lock' = proc
    /\ UNCHANGED <<db_vars, last, user, bot, commit_log>>

\* cursor.execute(INSERT INTO books ...) with the write lock held by the other
\* connection until the busy timeout ran out: OperationalError.
add_book_with_content_insert_locked(proc) ==
    /\ conns[proc].pc = "checked"
    /\ db_lock \notin {0, proc}
    /\ conns' = [conns EXCEPT ![proc] = add_raised(proc, "OperationalError")]
    /\ UNCHANGED <<db_vars, last, user, bot, db_lock, commit_log>>

\* cursor.execute(INSERT INTO book_contents ...): a UNIQUE(book_id) conflict
\* raises IntegrityError and the rollback drops the book row with the lock.
add_book_with_content_insert_content(proc) ==
    /\ conns[proc].pc = "book_inserted"
    /\ IF contents_unique_conflict(conns[proc].book_id)
       THEN /\ conns' = [conns EXCEPT ![proc] = add_raised(proc, "IntegrityError")]
            /\ db_lock' = 0
       ELSE /\ conns' = [conns EXCEPT ![proc].pc = "content_inserted"]
            /\ UNCHANGED db_lock
    /\ UNCHANGED <<db_vars, last, user, bot, commit_log>>

\* conn.commit(): the transaction's two rows are written, the lock is released.
add_book_with_content_commit(proc) ==
    /\ conns[proc].pc = "content_inserted"
    /\ db_lock = proc
    /\ books' = books \cup {[id |-> conns[proc].book_id, title |-> conns[proc].title,
                             author |-> conns[proc].author,
                             genre |-> conns[proc].genre]}
    /\ books_seq' = conns[proc].book_id
    /\ book_contents' = book_contents
                           \cup {content_row(conns[proc].book_id, conns[proc].content)}
    /\ db_lock' = 0
    /\ commit_log' = Append(commit_log, proc)
    /\ conns' = [conns EXCEPT ![proc].pc = "committed"]
    /\ UNCHANGED <<reading_progress, removed, last, user, bot>>

\* return book_id; finally: conn.close()
add_book_with_content_return(proc) ==
    /\ conns[proc].pc = "committed"
    /\ conns' = [conns EXCEPT ![proc] =
                    [pc |-> "returned", title |-> @.title, author |-> @.author,
                     genre |-> @.genre, content |-> @.content, raised |-> "none",
                     ret |-> @.book_id]]
    /\ UNCHANGED <<db_vars, last, user, bot, db_lock, commit_log>>

NextConcurrentAdd ==
    \/ \E proc \in Procs : add_book_with_content_connect(proc)
    \/ \E proc \in Procs : add_book_with_content_check(proc)
    \/ \E proc \in Procs : add_book_with_content_insert_book(proc)
    \/ \E proc \in Procs : add_book_with_content_insert_locked(proc)
    \/ \E proc \in Procs : add_book_with_content_insert_content(proc)
    \/ \E proc \in Procs : add_book_with_content_commit(proc)
    \/ \E proc \in Procs : add_book_with_content_return(proc)

SpecConcurrentAdd == InitConcurrentAdd /\ [][NextConcurrentAdd]_vars

\* ----------------------------------- the dialogue (src/telegram_bot.py, BookBot)
\* One chat talks to the bot.  The ConversationHandler of setup() keeps the
\* chat's conversation state and hands each update to the first handler of
\* that state that matches it, then to the fallbacks; the state becomes what
\* the handler returns, and stays when the handler returns None or when no
\* handler matches.  Replies are named by their meaning; sending one succeeds.
CHOOSING == "CHOOSING"
TYPING_SEARCH == "TYPING_SEARCH"
TYPING_BOOK_INFO == "TYPING_BOOK_INFO"
CONFIRM_DELETE == "CONFIRM_DELETE"
TYPING_BOOK_ID == "TYPING_BOOK_ID"
READING == "READING"
TYPING_BOOK_DETAILS == "TYPING_BOOK_DETAILS"
UPLOADING_FILE == "UPLOADING_FILE"
PROCESSING_FILE == "PROCESSING_FILE"

ConversationStates ==
    {CHOOSING, TYPING_SEARCH, TYPING_BOOK_INFO, CONFIRM_DELETE, TYPING_BOOK_ID,
     READING, TYPING_BOOK_DETAILS, UPLOADING_FILE, PROCESSING_FILE}

\* update.effective_user.id of the chat.
effective_user == 11

\* The largest file handle_file_upload accepts, in MB.
MaxFileMB == 20

allowed_extensions == {".txt", ".epub", ".fb2", ".mobi", ".pdf", ".doc", ".docx", ".rtf"}

\* The content stored for a file that is not read as text:
\* "[Файл <name> в формате <ext>]", a text that is not empty.
file_placeholder == Text(MaxLen)

\* The methods of DatabaseManager with the numbers of positional arguments
\* each accepts.
DatabaseManager_methods ==
    ("init_database" :> {0}) @@ ("add_book" :> {2, 3}) @@ ("get_all_books" :> {0})
    @@ ("get_book" :> {1}) @@ ("search_books" :> {1}) @@ ("delete_book" :> {1})
    @@ ("book_exists" :> {2}) @@ ("add_book_with_content" :> {4})
    @@ ("get_books_with_content" :> {0}) @@ ("get_book_content" :> {1})
    @@ ("get_book_page" :> {1, 2, 3}) @@ ("add_content_to_existing_book" :> {2})
    @@ ("save_reading_progress" :> {2, 3}) @@ ("get_reading_progress" :> {2})
    @@ ("get_user_reading_history" :> {1}) @@ ("get_statistics" :> {0})
    @@ ("backup_database" :> {0, 1}) @@ ("clear_database" :> {0})

\* What the call self.db.<name>(nargs arguments) raises before the method runs.
db_call(name, nargs) ==
    IF name \notin DOMAIN DatabaseManager_methods THEN "AttributeError"
    ELSE IF nargs \notin DatabaseManager_methods[name] THEN "TypeError"
    ELSE "none"

\* The button texts of the menu and of the reading keyboard.
MenuButtons ==
    ("Search" :> "search_books") @@ ("All books" :> "my_books")
    @@ ("Add book" :> "add_book") @@ ("Read" :> "read_book_menu")
    @@ ("Delete" :> "delete_book") @@ ("Statistics" :> "show_stats")
    @@ ("Help" :> "help_cmd")

MenuCommands ==
    ("help" :> "help_cmd") @@ ("mybooks" :> "my_books") @@ ("stats" :> "show_stats")
    @@ ("read" :> "read_book_menu") @@ ("add" :> "add_book")
    @@ ("delete" :> "delete_book") @@ ("download" :> "download_book_file")

\* A text message is the sequence of its fields: text.split("|"), stripped.
TextUpdates ==
    {[kind |-> "text", parts |-> p] :
        p \in {<<b>> : b \in DOMAIN MenuButtons}
              \cup {<<"1">>, <<"2">>, <<"3">>, <<"">>, <<"x">>}
              \cup {<<"To menu">>, <<"Back">>, <<"Forward">>, <<"Save">>}
              \cup {<<t, a>> : t \in Titles, a \in Authors}
              \cup {<<t, a, g>> : t \in Titles, a \in Authors, g \in Genres}
              \cup {<<t, a, g, c>> : t \in Titles, a \in Authors, g \in Genres,
                                     c \in Contents}}

CommandUpdates ==
    {[kind |-> "command", name |-> n, args |-> <<>>] :
        n \in {"start", "cancel"} \cup DOMAIN MenuCommands}
    \cup {[kind |-> "command", name |-> "download", args |-> <<"1">>]}

DocumentUpdates ==
    {[kind |-> "document", file_ext |-> e, file_size |-> s] :
        e \in {".txt", ".pdf", ".exe"}, s \in {1, MaxFileMB + 1}}

Updates == TextUpdates \cup CommandUpdates \cup DocumentUpdates

is_command(message, name) == message.kind = "command" /\ message.name = name

\* The whole text of a message, when it has no "|".
text_of(message) == IF Len(message.parts) = 1 THEN message.parts[1] ELSE "|"

\* int(text)
int_values == ("1" :> 1) @@ ("2" :> 2) @@ ("3" :> 3)

\* entry_points=[CommandHandler("start", self.start)]
entry_points(message) == IF is_command(message, "start") THEN "start" ELSE "none"

\* The handlers of states={...}: the first one of the state that matches.
state_handlers(state, message) ==
    IF state = CHOOSING
    THEN IF message.kind = "text" /\ text_of(message) \in DOMAIN MenuButtons
         THEN MenuButtons[text_of(message)]
         ELSE IF message.kind = "command" /\ message.name \in DOMAIN MenuCommands
         THEN MenuCommands[message.name]
         ELSE "none"
    ELSE IF state = UPLOADING_FILE /\ message.kind = "document"
    THEN "handle_file_upload"
    ELSE IF message.kind = "text"
    THEN CASE state = TYPING_SEARCH -> "handle_search"
           [] state = TYPING_BOOK_INFO -> "handle_add_type"
           [] state = TYPING_BOOK_DETAILS -> "handle_add_book_details"
           [] state = UPLOADING_FILE -> "handle_add_type"
           [] state = PROCESSING_FILE -> "process_file_book"
           [] state = TYPING_BOOK_ID -> "handle_read_book"
           [] state = READING -> "handle_reading_navigation"
           [] state = CONFIRM_DELETE -> "confirm_delete"
           [] OTHER -> "none"
    ELSE "none"

\* fallbacks=[CommandHandler("cancel", self.cancel)]
fallbacks(message) == IF is_command(message, "cancel") THEN "cancel" ELSE "none"

\* The handler the ConversationHandler runs for message in state.
handler_for(state, message) ==
    IF state \notin ConversationStates THEN entry_points(message)
    ELSE IF state_handlers(state, message) # "none"
    THEN state_handlers(state, message)
    ELSE fallbacks(message)

\* The replies that report a failure to the user.
error_replies ==
    {"error: search failed", "error: enter 1, 2 or 3", "error: file too big",
     "error: unsupported file format", "error: upload a book file",
     "error: file upload failed", "error: wrong format", "error: file not found",
     "error: file processing failed", "error: adding failed",
     "error: cannot get the list", "error: cannot load the list of books",
     "error: enter a numeric book id", "error: book not found",
     "error: cannot start reading", "error: session lost", "error: page not found",
     "error: navigation failed", "error: deleting failed",
     "error: cannot load statistics", "error: give a book id",
     "error: book has no file", "error: download failed"}

\* The handler's replies and the exception it caught, kept in last.
answer(handler, message, replies, raised) ==
    last' = [op |-> "handle_update", state |-> bot.state,
             command |-> IF message.kind = "command" THEN message.name ELSE "none",
             handler |-> handler, replies |-> replies, raised |-> raised]

\* The handler returns state and touches neither user_data nor the store.
go(handler, message, state, replies, raised) ==
    /\ answer(handler, message, replies, raised)
    /\ bot' = [bot EXCEPT !.state = state]
    /\ UNCHANGED db_vars

\* self.db.add_book_with_content raises: the book is stored already.
add_book_with_content_fails(title, author) ==
    \/ book_exists(title, author)
    \/ books_unique_conflict(title, author)
    \/ contents_unique_conflict(books_seq + 1)

\* The rows self.db.add_book_with_content commits.
store_book_with_content(title, author, genre, content) ==
    /\ books' = books \cup {[id |-> books_seq + 1, title |-> title,
                             author |-> author, genre |-> genre]}
    /\ books_seq' = books_seq + 1
    /\ book_contents' = book_contents \cup {content_row(books_seq + 1, content)}
    /\ UNCHANGED <<reading_progress, removed>>

BookBot_start(message) ==
    go("start", message, CHOOSING, <<"greeting", "choose an action">>, "none")

BookBot_help_cmd(message) ==
    go("help_cmd", message, CHOOSING, <<"help">>, "none")

BookBot_search_books(message) ==
    go("search_books", message, TYPING_SEARCH, <<"enter a query">>, "none")

BookBot_handle_search(message) ==
    LET query == text_of(message)
        results == {b \in books : query \in {b.title, b.author, b.genre}}
    IN  IF query = ""
        THEN go("handle_search", message, TYPING_SEARCH, <<"enter a text">>, "none")
        ELSE IF results = {}
        THEN go("handle_search", message, CHOOSING, <<"nothing found">>, "none")
        ELSE go("handle_search", message, CHOOSING, <<"books found">>, "none")

BookBot_add_book(message) ==
    go("add_book", message, TYPING_BOOK_INFO, <<"choose 1, 2 or 3">>, "none")

BookBot_handle_add_type(message) ==
    LET text == text_of(message)
    IN  IF text \in {"1", "2", "3"}
        THEN /\ answer("handle_add_type", message,
                       <<IF text = "3" THEN "upload a file" ELSE "enter the details">>,
                       "none")
             /\ bot' = [bot EXCEPT
                          !.add_type = CASE text = "1" -> "simple"
                                         [] text = "2" -> "with_content"
                                         [] text = "3" -> "file",
                          !.state = IF text = "3" THEN UPLOADING_FILE
                                    ELSE TYPING_BOOK_DETAILS]
             /\ UNCHANGED db_vars
        ELSE go("handle_add_type", message, TYPING_BOOK_INFO,
                <<"error: enter 1, 2 or 3">>, "none")

BookBot_handle_file_upload(message) ==
    IF message.kind # "document"
    THEN go("handle_file_upload", message, UPLOADING_FILE,
            <<"error: upload a book file">>, "none")
    ELSE IF message.file_size > MaxFileMB
    THEN go("handle_file_upload", message, UPLOADING_FILE,
            <<"error: file too big">>, "none")
    ELSE IF message.file_ext \notin allowed_extensions
    THEN go("handle_file_upload", message, UPLOADING_FILE,
            <<"error: unsupported file format">>, "none")
    ELSE /\ answer("handle_file_upload", message, <<"file received">>, "none")
         /\ bot' = [bot EXCEPT
                      !.uploaded_file = Some([file_ext |-> message.file_ext,
                                              file_size |-> message.file_size]),
                      !.state = PROCESSING_FILE]
         /\ UNCHANGED db_vars

\* The file is fetched from Telegram, which can fail; a .txt file yields its
\* text, any other file the placeholder; the book is added; then the file's
\* description is saved with self.db.save_book_file_info.
BookBot_process_file_book(message) ==
    LET parts == message.parts
        failed(exc) == go("process_file_book", message, PROCESSING_FILE,
                          <<"error: file processing failed">>, exc)
    IN  IF Len(parts) - 1 < 2
        THEN go("process_file_book", message, PROCESSING_FILE,
                <<"error: wrong format">>, "none")
        ELSE IF bot.uploaded_file = None
        THEN go("process_file_book", message, CHOOSING,
                <<"error: file not found", "main menu">>, "none")
        ELSE \E download_ok \in BOOLEAN, file_text \in Contents :
               LET content == IF bot.uploaded_file.value.file_ext = ".txt"
                              THEN file_text ELSE file_placeholder
               IN  IF ~ download_ok THEN failed("NetworkError")
                   ELSE IF db_call("add_book_with_content", 4) # "none"
                   THEN failed(db_call("add_book_with_content", 4))
                   ELSE IF add_book_with_content_fails(parts[1], parts[2])
                   THEN failed("Exception")
                   ELSE /\ store_book_with_content(parts[1], parts[2], parts[3],
                                                   content)
                        /\ IF db_call("save_book_file_info", 5) # "none"
                           THEN /\ answer("process_file_book", message,
                                          <<"error: file processing failed">>,
                                          db_call("save_book_file_info", 5))
                                /\ bot' = [bot EXCEPT !.state = PROCESSING_FILE]
                           ELSE /\ answer("process_file_book", message,
                                          <<"book from file added", "main menu">>,
                                          "none")
                                /\ bot' = [bot EXCEPT !.uploaded_file = None,
                                                      !.add_type = "unset",
                                                      !.state = CHOOSING]

BookBot_handle_add_book_details(message) ==
    LET parts == message.parts
        add_type == IF bot.add_type = "unset" THEN "simple" ELSE bot.add_type
        failed(exc) == go("handle_add_book_details", message, CHOOSING,
                          <<"error: adding failed">>, exc)
        added(reply) ==
            /\ answer("handle_add_book_details", message, <<reply, "main menu">>,
                      "none")
            /\ bot' = [bot EXCEPT !.add_type = "unset", !.state = CHOOSING]
    IN  IF add_type = "simple"
        THEN IF Len(parts) - 1 # 2
             THEN go("handle_add_book_details", message, TYPING_BOOK_DETAILS,
                     <<"error: wrong format">>, "none")
             ELSE IF books_unique_conflict(parts[1], parts[2])
             THEN failed("Exception")
             ELSE /\ books' = books \cup {[id |-> books_seq + 1, title |-> parts[1],
                                           author |-> parts[2], genre |-> parts[3]]}
                  /\ books_seq' = books_seq + 1
                  /\ UNCHANGED <<book_contents, reading_progress, removed>>
                  /\ added("book added")
        ELSE IF Len(parts) - 1 < 3
             THEN go("handle_add_book_details", message, TYPING_BOOK_DETAILS,
                     <<"error: wrong format">>, "none")
             ELSE IF add_book_with_content_fails(parts[1], parts[2])
             THEN failed("Exception")
             ELSE /\ store_book_with_content(parts[1], parts[2], parts[3], parts[4])
                  /\ added("book with text added")

\* my_books and show_stats return None: the state stays.
BookBot_my_books(message) ==
    IF db_call("get_books_with_files", 0) # "none"
    THEN go("my_books", message, bot.state, <<"error: cannot get the list">>,
            db_call("get_books_with_files", 0))
    ELSE go("my_books", message, bot.state,
            <<IF books = {} THEN "library is empty" ELSE "library">>, "none")

BookBot_read_book_menu(message) ==
    IF db_call("get_books_with_files", 0) # "none"
    THEN go("read_book_menu", message, CHOOSING,
            <<"error: cannot load the list of books">>,
            db_call("get_books_with_files", 0))
    ELSE IF {b \in books : \E c \in book_contents : c.book_id = b.id} = {}
    THEN go("read_book_menu", message, CHOOSING, <<"no books to read">>, "none")
    ELSE go("read_book_menu", message, TYPING_BOOK_ID, <<"enter a book id">>, "none")

BookBot_handle_read_book(message) ==
    LET user_input == text_of(message)
    IN  IF user_input \notin DOMAIN int_values
        THEN go("handle_read_book", message, TYPING_BOOK_ID,
                <<"error: enter a numeric book id">>, "none")
        ELSE IF db_call("get_book_content", 2) # "none"
        THEN go("handle_read_book", message, CHOOSING,
                <<"error: cannot start reading">>, db_call("get_book_content", 2))
        ELSE IF get_book_content(int_values[user_input]) = None
        THEN go("handle_read_book", message, CHOOSING,
                <<"error: book not found">>, "none")
        ELSE /\ answer("handle_read_book", message, <<"page">>, "none")
             /\ bot' = [bot EXCEPT !.current_book_id = int_values[user_input],
                                   !.current_page = 1, !.state = READING]
             /\ UNCHANGED db_vars

\* The save of the bookmark button is committed before the page is fetched.
BookBot_handle_reading_navigation(message) ==
    LET command == text_of(message)
        book_id == bot.current_book_id
        current_page == IF bot.current_page = 0 THEN 1 ELSE bot.current_page
        new_page == IF command = "Back" /\ current_page > 1 THEN current_page - 1
                    ELSE IF command = "Forward" THEN current_page + 1
                    ELSE current_page
        saved == IF command = "Save" THEN <<"progress saved">> ELSE <<>>
    IN  IF book_id = 0
        THEN go("handle_reading_navigation", message, CHOOSING,
                <<"error: session lost", "main menu">>, "none")
        ELSE IF command = "To menu"
        THEN /\ answer("handle_reading_navigation", message, <<"main menu">>, "none")
             /\ bot' = [state |-> CHOOSING, add_type |-> "unset",
                        uploaded_file |-> None, current_book_id |-> 0,
                        current_page |-> 0]
             /\ UNCHANGED db_vars
        ELSE /\ reading_progress' =
                    IF command = "Save"
                    THEN insert_or_replace_progress(effective_user, book_id,
                                                    current_page)
                    ELSE reading_progress
             /\ UNCHANGED <<books, books_seq, book_contents, removed>>
             /\ IF db_call("get_book_content", 2) # "none"
                THEN /\ answer("handle_reading_navigation", message,
                               saved \o <<"error: navigation failed">>,
                               db_call("get_book_content", 2))
                     /\ bot' = [bot EXCEPT !.state = CHOOSING]
                ELSE /\ answer("handle_reading_navigation", message,
                               saved \o <<"page">>, "none")
                     /\ bot' = [bot EXCEPT !.current_page = new_page,
                                           !.state = READING]

BookBot_delete_book(message) ==
    IF db_call("get_books_with_files", 0) # "none"
    THEN go("delete_book", message, CHOOSING,
            <<"error: cannot load the list of books">>,
            db_call("get_books_with_files", 0))
    ELSE IF books = {}
    THEN go("delete_book", message, CHOOSING, <<"no books to delete">>, "none")
    ELSE go("delete_book", message, CONFIRM_DELETE, <<"enter a book id">>, "none")

BookBot_confirm_delete(message) ==
    LET text == text_of(message)
        book_id == int_values[text]
        success == \E b \in books : b.id = book_id
    IN  IF text \notin DOMAIN int_values
        THEN go("confirm_delete", message, CONFIRM_DELETE,
                <<"error: enter a numeric book id">>, "none")
        ELSE /\ books' = {b \in books : b.id # book_id}
             /\ removed' = IF success /\ (\E c \in book_contents : c.book_id = book_id)
                           THEN removed \cup {book_id} ELSE removed
             /\ UNCHANGED <<books_seq, book_contents, reading_progress>>
             /\ answer("confirm_delete", message,
                       <<IF success THEN "book deleted" ELSE "error: book not found",
                         "main menu">>, "none")
             /\ bot' = [bot EXCEPT !.state = CHOOSING]

BookBot_show_stats(message) ==
    IF db_call("get_books_with_files", 0) # "none"
    THEN go("show_stats", message, bot.state, <<"error: cannot load statistics">>,
            db_call("get_books_with_files", 0))
    ELSE go("show_stats", message, bot.state, <<"statistics">>, "none")

\* download_book_file returns None: the state stays.
BookBot_download_book_file(message) ==
    IF Len(message.args) < 1
    THEN go("download_book_file", message, bot.state,
            <<"error: give a book id">>, "none")
    ELSE IF message.args[1] \notin DOMAIN int_values
    THEN go("download_book_file", message, bot.state,
            <<"error: enter a numeric book id">>, "ValueError")
    ELSE IF db_call("get_book_file_info", 1) # "none"
    THEN go("download_book_file", message, bot.state,
            <<"error: download failed">>, db_call("get_book_file_info", 1))
    ELSE go("download_book_file", message, bot.state,
            <<"error: book has no file">>, "none")

\* cancel returning None: the conversation stays in the state it was in.
BookBot_cancel_keeps_state(message) ==
    go("cancel", message, bot.state, <<"action cancelled", "main menu">>, "none")

BookBot_cancel(message) ==
    go("cancel", message, CHOOSING, <<"action cancelled", "main menu">>, "none")

\* An update no handler matches is dropped.
BookBot_unhandled(message) ==
    go("none", message, bot.state, <<>>, "none")

\* ConversationHandler.handle_update: the handler chosen for the state runs.
handle_update(message) ==
    LET handler == handler_for(bot.state, message)
    IN  /\ CASE handler = "start" -> BookBot_start(message)
             [] handler = "help_cmd" -> BookBot_help_cmd(message)
             [] handler = "search_books" -> BookBot_search_books(message)
             [] handler = "handle_search" -> BookBot_handle_search(message)
             [] handler = "add_book" -> BookBot_add_book(message)
             [] handler = "handle_add_type" -> BookBot_handle_add_type(message)
             [] handler = "handle_file_upload" -> BookBot_handle_file_upload(message)
             [] handler = "process_file_book" -> BookBot_process_file_book(message)
             [] handler = "handle_add_book_details" ->
                    BookBot_handle_add_book_details(message)
             [] handler = "my_books" -> BookBot_my_books(message)
             [] handler = "read_book_menu" -> BookBot_read_book_menu(message)
             [] handler = "handle_read_book" -> BookBot_handle_read_book(message)
             [] handler = "handle_reading_navigation" ->
                    BookBot_handle_reading_navigation(message)
             [] handler = "delete_book" -> BookBot_delete_book(message)
             [] handler = "confirm_delete" -> BookBot_confirm_delete(message)
             [] handler = "show_stats" -> BookBot_show_stats(message)
             [] handler = "download_book_file" -> BookBot_download_book_file(message)
             [] handler = "cancel" -> BookBot_cancel(message)
             [] OTHER -> BookBot_unhandled(message)
        /\ UNCHANGED <<user, conns, db_lock, commit_log>>

\* The bot starts on an initialised, empty store; no conversation has begun.
InitBot == Init

NextBot == \E message \in Updates : handle_update(message)

SpecBot == InitBot /\ [][NextBot]_vars

\* ------------------------------------------------ class User (src/models.py)
\* self.user maps a user_id to a dict that maps a book_id to
\* {'status': str, 'rating': int|None}.  Every method catches every exception
\* and returns False for it.
MinRating == 1
MaxRating == 5
UserIds == {1, 2}
UserBookIds == {101, 102}
\* the (user_id, book_id) the methods are called with
UserBookArgs == {<<1, 101>>, <<1, 102>>, <<2, 101>>}
allowed_status == {"planned", "reading", "completed", "dropped"}
StatusArgs == allowed_status \cup {"total"}
RatingArgs == {MinRating - 1, MinRating, MaxRating, MaxRating + 1}

\* d without the key k: del d[k]
DictWithout(d, k) == [x \in (DOMAIN d) \ {k} |-> d[x]]

\* d with d[k] = v set
DictWith(d, k, v) == [x \in (DOMAIN d) \cup {k} |-> IF x = k THEN v ELSE d[x]]

has_book(user_id, book_id) ==
    IF user_id \notin DOMAIN user THEN FALSE
    ELSE book_id \in DOMAIN user[user_id]

get_user_book_count(user_id) ==
    IF user_id \notin DOMAIN user THEN 0
    ELSE Cardinality(DOMAIN user[user_id])

\* stats starts with every key at 0; total is set to len(users_books), then
\* stats[status] += 1 for each book whose status is a key of stats ('total'
\* is one of the keys).
get_status(user_id) ==
    IF user_id \notin DOMAIN user
    THEN [total |-> 0, planned |-> 0, reading |-> 0, completed |-> 0, dropped |-> 0]
    ELSE LET users_books == user[user_id]
             count(status) ==
                 Cardinality({b \in DOMAIN users_books : users_books[b].status = status})
         IN  [total |-> Cardinality(DOMAIN users_books) + count("total"),
              planned |-> count("planned"),
              reading |-> count("reading"),
              completed |-> count("completed"),
              dropped |-> count("dropped")]

InitUser ==
    /\ books = {}
    /\ books_seq = 0
    /\ book_contents = {}
    /\ reading_progress = {}
    /\ last = [op |-> "User.__init__"]
    /\ removed = {}
    /\ user = EmptyDict
    /\ conns = [p \in Procs |-> [pc |-> "idle"]]
    /\ db_lock = 0
    /\ commit_log = <<>>
    /\ bot = no_conversation

\* User.add_book without the "book_id in self.user[user_id]" check: the entry
\* is written over.
User_add_book_overwrite(user_id, book_id, status) ==
    /\ IF status \notin allowed_status
       THEN /\ user' = user
            /\ last' = [op |-> "User.add_book", user_id |-> user_id,
                        book_id |-> book_id, status |-> status, ret |-> FALSE]
       ELSE LET created == IF user_id \notin DOMAIN user
                           THEN DictWith(user, user_id, EmptyDict) ELSE user
            IN  /\ user' = DictWith(created, user_id,
                                    DictWith(created[user_id], book_id,
                                             [status |-> status, rating |-> None]))
                /\ last' = [op |-> "User.add_book", user_id |-> user_id,
                            book_id |-> book_id, status |-> status, ret |-> TRUE]
    /\ UNCHANGED <<db_vars, conn_vars, bot>>

User_add_book(user_id, book_id, status) ==
    /\ IF status \notin allowed_status
       THEN /\ user' = user
            /\ last' = [op |-> "User.add_book", user_id |-> user_id,
                        book_id |-> book_id, status |-> status, ret |-> FALSE]
       ELSE LET created == IF user_id \notin DOMAIN user
                           THEN DictWith(user, user_id, EmptyDict) ELSE user
            IN  IF book_id \in DOMAIN created[user_id]
                THEN /\ user' = created
                     /\ last' = [op |-> "User.add_book", user_id |-> user_id,
                                 book_id |-> book_id, status |-> status,
                                 ret |-> FALSE]
                ELSE /\ user' = DictWith(created, user_id,
                                         DictWith(created[user_id], book_id,
                                                  [status |-> status, rating |-> None]))
                     /\ last' = [op |-> "User.add_book", user_id |-> user_id,
                                 book_id |-> book_id, status |-> status,
                                 ret |-> TRUE]
    /\ UNCHANGED <<db_vars, conn_vars, bot>>

\* rate_book without the "rating < 1 or rating > 5" check.
rate_book_unchecked(user_id, book_id, rating) ==
    /\ IF ~ has_book(user_id, book_id)
       THEN /\ user' = user
            /\ last' = [op |-> "User.rate_book", user_id |-> user_id,
                        book_id |-> book_id, rating |-> rating, ret |-> FALSE]
       ELSE /\ user' = DictWith(user, user_id,
                                DictWith(user[user_id], book_id,
                                         [status |-> user[user_id][book_id].status,
                                          rating |-> Some(rating)]))
            /\ last' = [op |-> "User.rate_book", user_id |-> user_id,
                        book_id |-> book_id, rating |-> rating, ret |-> TRUE]
    /\ UNCHANGED <<db_vars, conn_vars, bot>>

rate_book(user_id, book_id, rating) ==
    /\ IF rating < MinRating \/ rating > MaxRating
       THEN /\ user' = user
            /\ last' = [op |-> "User.rate_book", user_id |-> user_id,
                        book_id |-> book_id, rating |-> rating, ret |-> FALSE]
       ELSE IF user_id \notin DOMAIN user
       THEN /\ user' = user
            /\ last' = [op |-> "User.rate_book", user_id |-> user_id,
                        book_id |-> book_id, rating |-> rating, ret |-> FALSE]
       ELSE IF book_id \notin DOMAIN user[user_id]
       THEN /\ user' = user
            /\ last' = [op |-> "User.rate_book", user_id |-> user_id,
                        book_id |-> book_id, rating |-> rating, ret |-> FALSE]
       ELSE /\ user' = DictWith(user, user_id,
                                DictWith(user[user_id], book_id,
                                         [status |-> user[user_id][book_id].status,
                                          rating |-> Some(rating)]))
            /\ last' = [op |-> "User.rate_book", user_id |-> user_id,
                        book_id |-> book_id, rating |-> rating, ret |-> TRUE]
    /\ UNCHANGED <<db_vars, conn_vars, bot>>

\* remove_book deleting the user's whole dict: del self.user[user_id]
remove_book_drop_user(user_id, book_id) ==
    /\ IF ~ has_book(user_id, book_id)
       THEN /\ user' = user
            /\ last' = [op |-> "User.remove_book", user_id |-> user_id,
                        book_id |-> book_id, ret |-> FALSE]
       ELSE /\ user' = DictWithout(user, user_id)
            /\ last' = [op |-> "User.remove_book", user_id |-> user_id,
                        book_id |-> book_id, ret |-> TRUE]
    /\ UNCHANGED <<db_vars, conn_vars, bot>>

remove_book(user_id, book_id) ==
    /\ IF user_id \notin DOMAIN user
       THEN /\ user' = user
            /\ last' = [op |-> "User.remove_book", user_id |-> user_id,
                        book_id |-> book_id, ret |-> FALSE]
       ELSE IF book_id \notin DOMAIN user[user_id]
       THEN /\ user' = user
            /\ last' = [op |-> "User.remove_book", user_id |-> user_id,
                        book_id |-> book_id, ret |-> FALSE]
       ELSE LET deleted == DictWith(user, user_id, DictWithout(user[user_id], book_id))
            IN  /\ user' = IF Cardinality(DOMAIN deleted[user_id]) = 0
                           THEN DictWithout(deleted, user_id) ELSE deleted
                /\ last' = [op |-> "User.remove_book", user_id |-> user_id,
                            book_id |-> book_id, ret |-> TRUE]
    /\ UNCHANGED <<db_vars, conn_vars, bot>>

\* get_new_status without the "new_status not in allowed_status" check.
get_new_status_unchecked(user_id, book_id, new_status) ==
    /\ IF ~ has_book(user_id, book_id)
       THEN /\ user' = user
            /\ last' = [op |-> "User.get_new_status", user_id |-> user_id,
                        book_id |-> book_id, status |-> new_status, ret |-> FALSE]
       ELSE /\ user' = DictWith(user, user_id,
                                DictWith(user[user_id], book_id,
                                         [status |-> new_status,
                                          rating |-> user[user_id][book_id].rating]))
            /\ last' = [op |-> "User.get_new_status", user_id |-> user_id,
                        book_id |-> book_id, status |-> new_status, ret |-> TRUE]
    /\ UNCHANGED <<db_vars, conn_vars, bot>>

get_new_status(user_id, book_id, new_status) ==
    /\ IF new_status \notin allowed_status
       THEN /\ user' = user
            /\ last' = [op |-> "User.get_new_status", user_id |-> user_id,
                        book_id |-> book_id, status |-> new_status, ret |-> FALSE]
       ELSE IF user_id \notin DOMAIN user
       THEN /\ user' = user
            /\ last' = [op |-> "User.get_new_status", user_id |-> user_id,
                        book_id |-> book_id, status |-> new_status, ret |-> FALSE]
       ELSE IF book_id \notin DOMAIN user[user_id]
       THEN /\ user' = user
            /\ last' = [op |-> "User.get_new_status", user_id |-> user_id,
                        book_id |-> book_id, status |-> new_status, ret |-> FALSE]
       ELSE /\ user' = DictWith(user, user_id,
                                DictWith(user[user_id], book_id,
                                         [status |-> new_status,
                                          rating |-> user[user_id][book_id].rating]))
            /\ last' = [op |-> "User.get_new_status", user_id |-> user_id,
                        book_id |-> book_id, status |-> new_status, ret |-> TRUE]
    /\ UNCHANGED <<db_vars, conn_vars, bot>>

clear_user_books(user_id) ==
    /\ IF user_id \in DOMAIN user
       THEN /\ user' = DictWithout(user, user_id)
            /\ last' = [op |-> "User.clear_user_books", user_id |-> user_id,
                        ret |-> TRUE]
       ELSE /\ user' = user
            /\ last' = [op |-> "User.clear_user_books", user_id |-> user_id,
                        ret |-> FALSE]
    /\ UNCHANGED <<db_vars, conn_vars, bot>>

NextUser ==
    \/ \E ub \in UserBookArgs, st \in StatusArgs : User_add_book(ub[1], ub[2], st)
    \/ \E ub \in UserBookArgs, r \in RatingArgs : rate_book(ub[1], ub[2], r)
    \/ \E ub \in UserBookArgs : remove_book(ub[1], ub[2])
    \/ \E ub \in UserBookArgs, st \in StatusArgs : get_new_status(ub[1], ub[2], st)
    \/ \E u \in UserIds : clear_user_books(u)

SpecUser == InitUser /\ [][NextUser]_vars

\* ------------------------------------------------------------------ claims

\* C1: after delete_book(id) has removed a book, get_reading_progress(u, id)
\* is the no-progress value 0 for every user u, also for the users who had
\* saved progress for that book.
C1_DeleteCascadesToProgress ==
    (last.op = "delete_book" /\ last.ret) =>
        \A u \in Users : get_reading_progress(u, last.book_id) = 0

\* C2: reading_progress holds at most one row per (user_id, book_id).
C2_OneRowPerUserBook ==
    \A r1, r2 \in reading_progress :
        (r1.user_id = r2.user_id /\ r1.book_id = r2.book_id) => r1 = r2

\* A save over a row that held another page: one row is left for the key.
C2_Witness ==
    /\ last.op = "save_reading_progress"
    /\ last.previous # 0
    /\ last.previous # last.current_page
    /\ Cardinality(progress_unique_conflict(last.user_id, last.book_id)) = 1

\* The second of two save_reading_progress calls with the same arguments.
SaveRepeated ==
    /\ last.op = "save_reading_progress"
    /\ last'.op = "save_reading_progress"
    /\ last'.user_id = last.user_id
    /\ last'.book_id = last.book_id
    /\ last'.current_page = last.current_page

\* C3: save_reading_progress(u, b, p) succeeds and get_reading_progress(u, b)
\* is p after it, whatever page was stored before; a second call with the same
\* arguments leaves the table as the first call left it, and the page read is
\* still p.
C3_SaveIdempotent ==
    /\ [](last.op = "save_reading_progress" =>
            /\ last.ret
            /\ get_reading_progress(last.user_id, last.book_id) = last.current_page)
    /\ [][SaveRepeated =>
            /\ reading_progress' = reading_progress
            /\ get_reading_progress(last.user_id, last.book_id)' = last.current_page]_vars

\* The call was made when its page was already the stored one.
C3_Witness ==
    /\ last.op = "save_reading_progress"
    /\ last.previous = last.current_page
    /\ get_reading_progress(last.user_id, last.book_id) = last.current_page

\* C4: add_book with a (title, author) that a row of books already holds
\* raises and leaves books as it was; no state holds two books with the same
\* (title, author).
C4_DuplicateRejected ==
    /\ [](\A r1, r2 \in books :
            (r1.title = r2.title /\ r1.author = r2.author) => r1 = r2)
    /\ [][\A t \in Titles, a \in Authors :
            (/\ last'.op = "add_book"
             /\ last'.title = t
             /\ last'.author = a
             /\ \E r \in books : r.title = t /\ r.author = a)
            => (last'.raised = "Exception" /\ books' = books)]_vars

\* A rejected add_book, with the row it collided with still there.
C4_Witness ==
    /\ last.op = "add_book"
    /\ last.raised = "Exception"
    /\ Cardinality({r \in books : r.title = last.title /\ r.author = last.author}) = 1

\* C5: add_book_with_content with a content shorter than 10 characters (the
\* empty one too) fails with a validation error and adds neither a book row
\* nor a content row.
C5_ShortContentRejected ==
    [][\A t \in Titles, a \in Authors, g \in Genres, c \in Contents :
          (Len(c) < 10 /\ add_book_with_content(t, a, g, c))
          => /\ last'.raised = "ValidationError"
             /\ books' = books
             /\ book_contents' = book_contents]_vars

\* The book the last get_book_page call asked for exists and has a text of at
\* least one character.
PagedBookHasText ==
    /\ last.op = "get_book_page"
    /\ \E b \in books : b.id = last.book_id
    /\ \E c \in book_contents : c.book_id = last.book_id /\ Len(c.content) > 0

PagedLength ==
    Len((CHOOSE c \in book_contents : c.book_id = last.book_id).content)

\* C6: for a book with content_length L > 0, any page_size > 0 and any page
\* asked for, get_book_page returns a page with start < end <= L (start being
\* start_char - 1) holding those end - start characters, and with
\* 1 <= page <= total_pages.
C6_PageWithinBounds ==
    PagedBookHasText =>
        /\ last.ret # None
        /\ last.ret.start_char - 1 < last.ret.end_char
        /\ last.ret.end_char <= PagedLength
        /\ Len(last.ret.content) = last.ret.end_char - (last.ret.start_char - 1)
        /\ 1 <= last.ret.page
        /\ last.ret.page <= last.ret.total_pages

\* A page asked for beyond the last one, the last one being shorter than
\* page_size.
C6_Witness ==
    /\ PagedBookHasText
    /\ last.ret # None
    /\ last.page > last.ret.total_pages
    /\ last.ret.total_pages > 1
    /\ Len(last.ret.content) < last.page_size

\* C7: for a book with content, a page below 1 gives what page 1 gives and a
\* page above total_pages gives what page total_pages gives.
C7_OutOfRangeSaturates ==
    PagedBookHasText =>
        LET first == get_book_page(last.book_id, 1, last.page_size)
        IN  /\ last.ret # None
            /\ first # None
            /\ last.page < 1 => (last.ret.page = 1 /\ last.ret = first)
            /\ last.page > first.total_pages =>
                   /\ last.ret.page = first.total_pages
                   /\ last.ret = get_book_page(last.book_id, first.total_pages,
                                               last.page_size)

\* A page below 1 asked of a book of several pages.
C7_Witness ==
    /\ PagedBookHasText
    /\ last.page < 1
    /\ last.ret # None
    /\ last.ret.page = 1
    /\ last.ret.total_pages > 1

\* C8: after add_book_with_content accepted a content of length L,
\* get_book_page(id, 1, S) on the id it returned holds the first min(S, L)
\* characters of that content, for every page_size S.
C8_RoundTrip ==
    (last.op = "add_book_with_content" /\ last.raised = "none") =>
        \A s \in PageSizes :
            LET r == get_book_page(last.ret, 1, s)
            IN  /\ r # None
                /\ r.content = SubSeq(last.content, 1, Min(s, Len(last.content)))

\* C9: get_book_page returns None when no book has the id, when the book has
\* no content row, and when its stored content is empty.
C9_NoPageWithoutContent ==
    \A id \in 0..(MaxBookId + 1), p \in StorePageArgs, s \in PageSizes :
        (\/ ~ \E b \in books : b.id = id
         \/ ~ \E c \in book_contents : c.book_id = id
         \/ \E c \in book_contents : c.book_id = id /\ c.content = <<>>)
        => get_book_page(id, p, s) = None

\* A book whose stored content is empty, beside the content row of a book
\* that is gone.
C9_Witness ==
    /\ \E b \in books : \E c \in book_contents :
           c.book_id = b.id /\ c.content = <<>>
    /\ \E c \in book_contents :
           c.content # <<>> /\ ~ \E b \in books : b.id = c.book_id

\* C10: once delete_book has removed a book that had content,
\* get_book_page(id, 1, S) returns None for every page_size S, in every later
\* state.
C10_RemovedBookNotPaged ==
    \A id \in removed, s \in PageSizes : get_book_page(id, 1, s) = None

\* After the removal another book was added with content, and the removed
\* book's content row is still stored.
C10_Witness ==
    /\ last.op = "add_book_with_content"
    /\ last.raised = "none"
    /\ \E id \in removed : \E c \in book_contents :
           c.book_id = id /\ c.content # <<>>

\* C11: delete_book(id) returns True exactly when a book with that id was
\* stored, and the book is gone after it; for an id no book has it returns
\* False, raises nothing and leaves every table as it was; a delete_book(id)
\* right after one that returned True returns False.
C11_DeleteReportsRemoval ==
    [][last'.op = "delete_book" =>
          LET existed == \E b \in books : b.id = last'.book_id
          IN  /\ last'.raised = "none"
              /\ last'.ret = existed
              /\ ~ \E b \in books' : b.id = last'.book_id
              /\ ~ existed =>
                     /\ books' = books
                     /\ books_seq' = books_seq
                     /\ book_contents' = book_contents
                     /\ reading_progress' = reading_progress
              /\ (/\ last.op = "delete_book"
                  /\ last.book_id = last'.book_id
                  /\ last.ret) => ~ last'.ret]_vars

\* delete_book returned False for the id of a book an earlier delete_book
\* removed.
C11_Witness ==
    /\ last.op = "delete_book"
    /\ ~ last.ret
    /\ last.book_id \in removed

C13_PercentageOneDecimal ==
    (PagedBookHasText /\ last.ret # None) =>
        LET d == last.ret.percentage * 10 * PagedLength - last.ret.end_char * 1000
        IN  2 * (IF d < 0 THEN 0 - d ELSE d) <= PagedLength

\* C14: for a content of L > 0 characters and a page_size S > 0, total_pages
\* is ceil(L / S), and page total_pages starts at (total_pages - 1) * S, ends
\* at L, holds those characters and reports percentage 100; L = 3700 and
\* S = 1500 give 3 pages, page 3 being [3000, 3700).
C14_LastPage ==
    /\ (PagedBookHasText /\ last.ret # None) =>
          LET tp == last.ret.total_pages
              final == get_book_page(last.book_id, tp, last.page_size)
              text == (CHOOSE c \in book_contents : c.book_id = last.book_id).content
          IN  /\ (tp - 1) * last.page_size < PagedLength
              /\ PagedLength <= tp * last.page_size
              /\ final # None
              /\ final.page = tp
              /\ final.start_char - 1 = (tp - 1) * last.page_size
              /\ final.end_char = PagedLength
              /\ final.content = SubSeq(text, (tp - 1) * last.page_size + 1, PagedLength)
              /\ final.percentage = 100
    /\ LET r == page_range(3700, 3, 1500)
       IN  /\ r.total_pages = 3
           /\ r.start_idx = 3000
           /\ r.end_idx = 3700
           /\ r.percentage = 100

\* The last of several pages was asked for, and it is shorter than page_size.
C14_Witness ==
    /\ PagedBookHasText
    /\ last.ret # None
    /\ last.ret.total_pages > 1
    /\ last.page = last.ret.total_pages
    /\ last.ret.end_char = PagedLength
    /\ last.ret.percentage = 100
    /\ Len(last.ret.content) < last.page_size

\* C16: add_book_with_content adds the book row and its content row together
\* or, when it raises, adds neither; and a book that has a content row keeps
\* one for as long as the book is stored.
C16_BookAndContentTogether ==
    [][/\ (last'.op = "add_book_with_content" /\ last'.raised = "none") =>
            /\ \E b \in books' \ books : b.id = last'.ret
            /\ \E c \in book_contents' \ book_contents : c.book_id = last'.ret
            /\ Cardinality(books') = Cardinality(books) + 1
            /\ Cardinality(book_contents') = Cardinality(book_contents) + 1
       /\ (last'.op = "add_book_with_content" /\ last'.raised # "none") =>
            /\ books' = books
            /\ book_contents' = book_contents
       /\ \A b \in books \cap books' :
            (\E c \in book_contents : c.book_id = b.id)
               => (\E c \in book_contents' : c.book_id = b.id)]_vars

\* add_book_with_content raised for a (title, author) that is stored, and the
\* stored book has its content row; the content row of a deleted book is
\* stored too.
C16_Witness ==
    /\ last.op = "add_book_with_content"
    /\ last.raised = "Exception"
    /\ \E b \in books :
           /\ b.title = last.title
           /\ b.author = last.author
           /\ \E c \in book_contents : c.book_id = b.id
    /\ \E c \in book_contents : ~ \E b \in books : b.id = c.book_id

\* Every call of SpecConcurrentSave has returned.
SavesReturned == \A proc \in Procs : conns[proc].pc = "returned"

\* C15: when two save_reading_progress calls for the same (user_id, book_id)
\* run concurrently with pages p1 and p2, reading_progress never holds two rows
\* for the key, and once both calls have returned it holds exactly one, whose
\* page is the page of the call that committed last (so p1 or p2).
C15_ConcurrentSavesSerialize ==
    /\ Cardinality(progress_unique_conflict(SaveKeyUser, SaveKeyBook)) <= 1
    /\ SavesReturned =>
          /\ Cardinality(progress_unique_conflict(SaveKeyUser, SaveKeyBook)) = 1
          /\ reading_progress = progress_unique_conflict(SaveKeyUser, SaveKeyBook)
          /\ commit_log # <<>>
          /\ get_reading_progress(SaveKeyUser, SaveKeyBook)
                 = conns[commit_log[Len(commit_log)]].current_page
          /\ \E proc \in Procs :
                 get_reading_progress(SaveKeyUser, SaveKeyBook)
                    = conns[proc].current_page
          /\ \A proc \in Procs :
                 conns[proc].ret <=> (\E i \in 1..Len(commit_log) : commit_log[i] = proc)

\* Both calls returned True with different pages, the second caller having
\* committed first: the first caller's page is the one stored.
C15_Witness ==
    /\ SavesReturned
    /\ conns[1].ret
    /\ conns[2].ret
    /\ conns[1].current_page # conns[2].current_page
    /\ commit_log = <<2, 1>>
    /\ get_reading_progress(SaveKeyUser, SaveKeyBook) = conns[1].current_page

\* Every (user_id, book_id) entry other than (u, b) is after the step what it
\* was before it.
OtherEntriesUnchanged(u, b) ==
    \A u2 \in UserIds, b2 \in UserBookIds :
        (u2 # u \/ b2 # b) =>
            /\ has_book(u2, b2)' = has_book(u2, b2)
            /\ has_book(u2, b2) => user'[u2][b2] = user[u2][b2]

C19_RemoveBook ==
    [][\A u \in UserIds, b \in UserBookIds :
          /\ (/\ last'.op = "User.remove_book"
              /\ last'.user_id = u
              /\ last'.book_id = b) =>
                 /\ last'.ret = has_book(u, b)
                 /\ ~ has_book(u, b)'
                 /\ OtherEntriesUnchanged(u, b)
                 /\ ~ last'.ret => user' = user
          /\ has_book(u, b)' =
                 IF /\ last'.op = "User.add_book"
                    /\ last'.user_id = u
                    /\ last'.book_id = b
                    /\ last'.ret
                 THEN TRUE
                 ELSE IF \/ /\ last'.op = "User.remove_book"
                            /\ last'.user_id = u
                            /\ last'.book_id = b
                            /\ last'.ret
                         \/ /\ last'.op = "User.clear_user_books"
                            /\ last'.user_id = u
                            /\ last'.ret
                 THEN FALSE
                 ELSE has_book(u, b)]_vars

\* remove_book returned True for one of the two books of a user; the other
\* book is still in the collection.
C19_Witness ==
    /\ last.op = "User.remove_book"
    /\ last.ret = TRUE
    /\ ~ has_book(last.user_id, last.book_id)
    /\ \E b \in UserBookIds : has_book(last.user_id, b)

\* C20: get_status(u)['total'] is the number of books in u's collection and
\* is planned + reading + completed + dropped; for a user with no books every
\* count is 0.
C20_StatusCounts ==
    \A u \in UserIds \cup {999} :
        LET stats == get_status(u)
            held == Cardinality({b \in UserBookIds : has_book(u, b)})
        IN  /\ stats.total = held
            /\ stats.total = stats.planned + stats.reading + stats.completed + stats.dropped
            /\ held = 0 =>
                   stats = [total |-> 0, planned |-> 0, reading |-> 0,
                            completed |-> 0, dropped |-> 0]

\* A status was changed; one user has two books, completed and dropped, and
\* another user has none.
C20_Witness ==
    /\ last.op = "User.get_new_status"
    /\ last.ret = TRUE
    /\ \E u \in UserIds :
           get_status(u) = [total |-> 2, planned |-> 0, reading |-> 0,
                            completed |-> 1, dropped |-> 1]
    /\ \E u \in UserIds : get_status(u).total = 0

\* C24: save_reading_progress(u, b, p) changes the row of (u, b) alone: the
\* page stored for every other (user, book) is what it was, and books and
\* book_contents are unchanged.
C24_SaveFrame ==
    [][\A u \in Users, b \in BookIds :
          (/\ last'.op = "save_reading_progress"
           /\ last'.user_id = u
           /\ last'.book_id = b) =>
              /\ \A u2 \in Users, b2 \in BookIds :
                     (u2 # u \/ b2 # b) =>
                         /\ {r \in reading_progress' :
                                  r.user_id = u2 /\ r.book_id = b2}
                               = {r \in reading_progress :
                                  r.user_id = u2 /\ r.book_id = b2}
                         /\ get_reading_progress(u2, b2)' = get_reading_progress(u2, b2)
              /\ books' = books
              /\ books_seq' = books_seq
              /\ book_contents' = book_contents]_vars

\* A user saved a page for a book for which the other user has another page
\* stored, and both pages are stored.
C24_Witness ==
    /\ last.op = "save_reading_progress"
    /\ last.user_id = 12
    /\ get_reading_progress(12, last.book_id) = last.current_page
    /\ get_reading_progress(11, last.book_id) # 0
    /\ get_reading_progress(11, last.book_id) # last.current_page
    /\ books # {}
    /\ book_contents # {}

\* C25: every book_contents row and every reading_progress row has the
\* book_id of a row of books.
C25_ReferentialIntegrity ==
    /\ \A c \in book_contents : \E b \in books : b.id = c.book_id
    /\ \A r \in reading_progress : \E b \in books : b.id = r.book_id

\* C28: get_statistics has books_with_content <= total_books and
\* books_without_content >= 0.
C28_StatisticsConsistent ==
    /\ get_statistics.books_with_content <= get_statistics.total_books
    /\ get_statistics.books_without_content >= 0

\* The contents of pages first..total_pages of a book, one after the other.
RECURSIVE PagesFrom(_, _, _, _)
PagesFrom(book_id, first, total_pages, page_size) ==
    IF first > total_pages THEN <<>>
    ELSE get_book_page(book_id, first, page_size).content
             \o PagesFrom(book_id, first + 1, total_pages, page_size)

\* C29: for a content of L > 0 characters and a page_size S > 0, the pages
\* 1..total_pages follow one another without gap or overlap, their contents
\* put together are the stored content, and every page but the last has S
\* characters.
C29_PagesCoverContent ==
    (PagedBookHasText /\ last.ret # None) =>
        LET tp == last.ret.total_pages
            S == last.page_size
            text == (CHOOSE c \in book_contents : c.book_id = last.book_id).content
            page(p) == get_book_page(last.book_id, p, S)
        IN  /\ page(1).start_char = 1
            /\ page(tp).end_char = PagedLength
            /\ \A p \in 1..(tp - 1) :
                   /\ page(p + 1).start_char = page(p).end_char + 1
                   /\ Len(page(p).content) = S
            /\ \A p \in 1..tp :
                   Len(page(p).content) = page(p).end_char - page(p).start_char + 1
            /\ PagesFrom(last.book_id, 1, tp, S) = text

\* A content of three pages or more, the last shorter than page_size.
C29_Witness ==
    /\ PagedBookHasText
    /\ last.ret # None
    /\ last.ret.total_pages >= 3
    /\ PagedLength % last.page_size # 0
    /\ last.ret.page = 2

\* The books rows of the (title, author) the two calls add.
AddKeyRows == {b \in books : b.title = AddKeyTitle /\ b.author = AddKeyAuthor}

\* Every call of SpecConcurrentAdd has returned or raised.
AddsReturned == \A proc \in Procs : conns[proc].pc = "returned"

\* C26: when two add_book_with_content calls for the same (title, author) run
\* concurrently, books never holds two rows for the pair, and once both calls
\* have ended it holds exactly one, with exactly one content row; at most one
\* call returned an id, the row and the content stored are then that call's,
\* and a call that raised left no row: every book has one content row and
\* every content row its book.
C26_ConcurrentAddsOneBook ==
    /\ Cardinality(AddKeyRows) <= 1
    /\ AddsReturned =>
          /\ Cardinality(AddKeyRows) = 1
          /\ \A b \in books :
                 Cardinality({c \in book_contents : c.book_id = b.id}) = 1
          /\ \A c \in book_contents : \E b \in books : b.id = c.book_id
          /\ Cardinality({proc \in Procs : conns[proc].raised = "none"}) <= 1
          /\ \A proc \in Procs :
                 conns[proc].raised = "none" =>
                     /\ commit_log = <<proc>>
                     /\ AddKeyRows = {[id |-> conns[proc].ret, title |-> AddKeyTitle,
                                       author |-> AddKeyAuthor,
                                       genre |-> conns[proc].genre]}
                     /\ get_book_content(conns[proc].ret) = Some(conns[proc].content)
          /\ Cardinality(books) = books_seq

\* Both calls passed their existence check; the second caller committed, and
\* the first caller's INSERT then raised IntegrityError.
C26_Witness ==
    /\ AddsReturned
    /\ commit_log = <<2>>
    /\ conns[2].raised = "none"
    /\ conns[1].raised = "IntegrityError"
    /\ conns[1].content # conns[2].content
    /\ Cardinality(AddKeyRows) = 1

\* The last step handled an update of the chat.
Handled == last.op = "handle_update"

\* The store holds a book with content.
BookWithContentStored == \E b \in books : \E c \in book_contents : c.book_id = b.id

\* C22: choosing Read in the main menu while the store holds a book with
\* content moves the conversation to the book-id prompt TYPING_BOOK_ID (from
\* where the id of such a book leads to READING at page 1).
C22_ReadingReachable ==
    [][(/\ Handled'
        /\ bot.state = CHOOSING
        /\ last'.handler = "read_book_menu"
        /\ BookWithContentStored)
           => bot'.state = TYPING_BOOK_ID]_vars

\* C23: when the handler of an update fails (an operation it calls raises),
\* the bot replies with an error and the conversation is in CHOOSING afterwards.
C23_FailureReturnsToMenu ==
    [][(Handled' /\ last'.raised # "none")
           => /\ \E i \in DOMAIN last'.replies : last'.replies[i] \in error_replies
              /\ bot'.state = CHOOSING]_vars

\* C27: when a book-adding message (handled by handle_add_book_details or by
\* process_file_book) is answered with an error reply, books and book_contents
\* are the same as before the message.
C27_ErrorReplyAddsNoBook ==
    [][(/\ Handled'
        /\ last'.handler \in {"handle_add_book_details", "process_file_book"}
        /\ \E i \in DOMAIN last'.replies : last'.replies[i] \in error_replies)
           => /\ books' = books
              /\ book_contents' = book_contents]_vars

\* C30: in each of the nine conversation states the /cancel command is given
\* to the fallback handler cancel, and an update of /cancel that arrives in a
\* conversation state is handled by cancel, leaves the conversation in
\* CHOOSING and leaves every table of the store as it was.
C30_CancelReturnsToMenu ==
    [][/\ \A state \in ConversationStates :
             handler_for(state, [kind |-> "command", name |-> "cancel",
                                 args |-> <<>>]) = "cancel"
       /\ (Handled' /\ last'.command = "cancel" /\ bot.state \in ConversationStates)
             => /\ last'.handler = "cancel"
                /\ bot'.state = CHOOSING
                /\ UNCHANGED db_vars]_vars

\* /cancel arrived after a file was uploaded, with a book stored: the
\* conversation is back in the menu and the book is still stored.
C30_Witness ==
    /\ Handled
    /\ last.command = "cancel"
    /\ last.handler = "cancel"
    /\ last.state = PROCESSING_FILE
    /\ bot.state = CHOOSING
    /\ BookWithContentStored
====
